---- MODULE Spec2Model ----
(***************************************************************************)
(* Model of the cake-cutting engine of players/g2: get_cuts_spread,        *)
(* generate_cuts, cuts_to_polygons / divide_polygon, __calculate_penalty,  *)
(* best_combo, create_offspring / shake, sneak and cuts_to_moves.          *)
(*                                                                         *)
(* Lengths are integers counting hundredths of a unit, the precision the   *)
(* code rounds every coordinate to (round(x, 2)): 0.01 is 1, 0.1 is 10,    *)
(* the plate radius 12.5 is 1250 and the area 0.25 is 2500.  Areas,        *)
(* intersection points and penalties are exact rationals <<n, d>>, d > 0,  *)
(* in lowest terms.                                                        *)
(***************************************************************************)
EXTENDS Integers, Sequences, FiniteSets, TLC

(***************************************************************************)
(* Bounds of the model (inputs and scaled-down trial budgets).             *)
(***************************************************************************)
\* cake_len of the checked inputs, in hundredths
CakeLen == 30
\* cake_width of the checked inputs, in hundredths
CakeWidth == 20
\* jumps: the sample points per edge in the runs of generate_cuts
GenJumps == 3
\* the largest number of cuts asked of generate_cuts
MaxGenCuts == 2
\* the longest list of mixed requests given to best_combo
MaxRequests == 4
\* the longest request list given to best_combo; the lists longer than
\* MaxRequests hold equal requests
LongRequests == 6
\* best_combo: CutSets drawn per cut count in the search (200 in the code)
SearchTrials == 2
\* best_combo: CutSets drawn in the spam pass (2000 in the code)
SpamTrials == 1
\* best_combo: jumps of the search's calls of generate_cuts (6 in the code)
SearchJumps == 2
\* best_combo: jumps of the spam pass's calls of generate_cuts (12 in the code)
SpamJumps == 2
\* best_combo: how far past the best cut count the search goes (5 in the code)
ExitMargin == 1

(***************************************************************************)
(* Exact rational arithmetic (the code's floats).                          *)
(***************************************************************************)
Abs(x) == IF x < 0 THEN -x ELSE x

RECURSIVE GCD(_, _)
GCD(a, b) == IF b = 0 THEN a ELSE GCD(b, a % b)

RNorm(n, d) ==
    LET g == GCD(Abs(n), d)
    IN  IF n = 0 THEN <<0, 1>> ELSE <<n \div g, d \div g>>

R(n) == <<n, 1>>

RNeg(a) == <<-a[1], a[2]>>

RAdd(a, b) ==
    LET g == GCD(a[2], b[2])
    IN  RNorm(a[1] * (b[2] \div g) + b[1] * (a[2] \div g), (a[2] \div g) * b[2])

RSub(a, b) == RAdd(a, RNeg(b))

RMul(a, b) ==
    IF a[1] = 0 \/ b[1] = 0 THEN <<0, 1>>
    ELSE LET g1 == GCD(Abs(a[1]), b[2])
             g2 == GCD(Abs(b[1]), a[2])
         IN  <<(a[1] \div g1) * (b[1] \div g2), (a[2] \div g2) * (b[2] \div g1)>>

\* b # 0
RInv(b) == IF b[1] < 0 THEN <<-b[2], -b[1]>> ELSE <<b[2], b[1]>>

RDiv(a, b) == RMul(a, RInv(b))

RSign(a) == IF a[1] > 0 THEN 1 ELSE IF a[1] < 0 THEN -1 ELSE 0

RLt(a, b) == RSign(RSub(a, b)) < 0

RLe(a, b) == RSign(RSub(a, b)) <= 0

RAbs(a) == <<Abs(a[1]), a[2]>>

\* round(n / d) to the nearest integer, ties to the even one (Python's round)
RoundDiv(n, d) ==
    LET q == n \div d
        r == n % d
    IN  IF 2 * r < d THEN q
        ELSE IF 2 * r > d THEN q + 1
        ELSE IF q % 2 = 0 THEN q ELSE q + 1

Max(a, b) == IF a > b THEN a ELSE b

\* the function f as a table: its values are computed once, not at every use
Table(f) == f @@ <<>>

(***************************************************************************)
(* get_cuts_spread: the bounds of the search over the number of cuts.      *)
(***************************************************************************)
\* get_cuts_spread without the line max_cuts = max(max_cuts, min_cuts + 1)
get_cuts_spread_NoRaise(requests) ==
    LET count == Len(requests)
        min_cuts == count \div 3
        max_cuts == count - 1
    IN  <<min_cuts, max_cuts>>

get_cuts_spread(requests) ==
    LET count == Len(requests)
        min_cuts == count \div 3
        max_cuts == Max(count - 1, min_cuts + 1)
    IN  <<min_cuts, max_cuts>>

(***************************************************************************)
(* generate_cuts: the sample points of the four edges.  A point is         *)
(* <<x, y>>; a cut is <<from_point, to_point>>.                            *)
(***************************************************************************)
GAP(jumps) == jumps - 1

LEFT(cake_len, cake_width, jumps) ==
    {<<0, RoundDiv(cake_len * i, GAP(jumps))>> : i \in 0..(jumps - 1)}

RIGHT(cake_len, cake_width, jumps) ==
    {<<cake_width, RoundDiv(cake_len * i, GAP(jumps))>> : i \in 0..(jumps - 1)}

UP(cake_len, cake_width, jumps) ==
    {<<RoundDiv(cake_width * i, GAP(jumps)), 0>> : i \in 0..(jumps - 1)}

DOWN(cake_len, cake_width, jumps) ==
    {<<RoundDiv(cake_width * i, GAP(jumps)), cake_len>> : i \in 0..(jumps - 1)}

points(cake_len, cake_width, jumps) ==
    LEFT(cake_len, cake_width, jumps) \cup RIGHT(cake_len, cake_width, jumps)
        \cup UP(cake_len, cake_width, jumps) \cup DOWN(cake_len, cake_width, jumps)

\* the points the "to" point is sampled from, by the if / elif chain on from_point
ToPoints(from_point, cake_len, cake_width, jumps) ==
    LET pts == points(cake_len, cake_width, jumps)
    IN  IF from_point \in LEFT(cake_len, cake_width, jumps)
            THEN pts \ LEFT(cake_len, cake_width, jumps)
        ELSE IF from_point \in RIGHT(cake_len, cake_width, jumps)
            THEN pts \ RIGHT(cake_len, cake_width, jumps)
        ELSE IF from_point \in UP(cake_len, cake_width, jumps)
            THEN pts \ UP(cake_len, cake_width, jumps)
        ELSE pts \ DOWN(cake_len, cake_width, jumps)

(***************************************************************************)
(* Polygons: sequences of vertices with rational coordinates.              *)
(***************************************************************************)
PtR(p) == <<R(p[1]), R(p[2])>>

\* cross product (b - a) x (c - a)
Cross(a, b, c) ==
    RSub(RMul(RSub(b[1], a[1]), RSub(c[2], a[2])),
         RMul(RSub(b[2], a[2]), RSub(c[1], a[1])))

Nxt(poly, i) == IF i = Len(poly) THEN 1 ELSE i + 1

Prv(poly, i) == IF i = 1 THEN Len(poly) ELSE i - 1

RECURSIVE ShoelaceSum(_, _)
ShoelaceSum(poly, i) ==
    IF i > Len(poly) THEN <<0, 1>>
    ELSE LET a == poly[i]
             b == poly[Nxt(poly, i)]
         IN  RAdd(RSub(RMul(a[1], b[2]), RMul(b[1], a[2])), ShoelaceSum(poly, i + 1))

\* Polygon.area
Area(poly) == RMul(<<1, 2>>, RAbs(ShoelaceSum(poly, 1)))

\* Polygon.convex_hull of a convex vertex list: the vertices that are corners
convex_hull(poly) ==
    LET keep == {i \in 1..Len(poly) :
                    RSign(Cross(poly[Prv(poly, i)], poly[i], poly[Nxt(poly, i)])) # 0}
        RECURSIVE Pick(_)
        Pick(i) == IF i > Len(poly) THEN <<>>
                   ELSE IF i \in keep THEN <<poly[i]>> \o Pick(i + 1)
                   ELSE Pick(i + 1)
    IN  Pick(1)

\* which side of the line from_point -> to_point the vertex v lies on
Side(v, from_point, to_point) ==
    RSign(Cross(PtR(from_point), PtR(to_point), v))

\* the point where the line from_point -> to_point meets the edge a -> b
Meet(a, b, from_point, to_point) ==
    LET sa == Cross(PtR(from_point), PtR(to_point), a)
        sb == Cross(PtR(from_point), PtR(to_point), b)
        t == RDiv(sa, RSub(sa, sb))
    IN  <<RAdd(a[1], RMul(t, RSub(b[1], a[1]))), RAdd(a[2], RMul(t, RSub(b[2], a[2])))>>

\* v lies on the segment from_point .. to_point, given that it lies on its line
OnSegment(v, from_point, to_point) ==
    LET f == PtR(from_point)
        g == PtR(to_point)
        dot == RAdd(RMul(RSub(v[1], f[1]), RSub(g[1], f[1])),
                    RMul(RSub(v[2], f[2]), RSub(g[2], f[2])))
        len2 == RAdd(RMul(RSub(g[1], f[1]), RSub(g[1], f[1])),
                     RMul(RSub(g[2], f[2]), RSub(g[2], f[2])))
    IN  RLe(<<0, 1>>, dot) /\ RLe(dot, len2)

\* the vertices of the piece on side sgn of the line, in the polygon's order
RECURSIVE PieceOn(_, _, _, _, _)
PieceOn(poly, from_point, to_point, sgn, i) ==
    IF i > Len(poly) THEN <<>>
    ELSE LET a == poly[i]
             b == poly[Nxt(poly, i)]
             sa == Side(a, from_point, to_point)
             sb == Side(b, from_point, to_point)
             own == IF sa = sgn \/ sa = 0 THEN <<a>> ELSE <<>>
             cut == IF sa * sb < 0 THEN <<Meet(a, b, from_point, to_point)>> ELSE <<>>
         IN  own \o cut \o PieceOn(poly, from_point, to_point, sgn, i + 1)

\* the points of the polygon's boundary that lie on the line
ChordEnds(poly, from_point, to_point) ==
    {poly[i] : i \in {j \in 1..Len(poly) : Side(poly[j], from_point, to_point) = 0}}
    \cup {Meet(poly[i], poly[Nxt(poly, i)], from_point, to_point) :
            i \in {j \in 1..Len(poly) :
                     Side(poly[j], from_point, to_point)
                       * Side(poly[Nxt(poly, j)], from_point, to_point) < 0}}

(***************************************************************************)
(* divide_polygon: shapely's split of a convex polygon by a segment.  The  *)
(* polygon is split in two when the segment runs through its interior from *)
(* boundary to boundary; a segment that misses it, only touches it, runs   *)
(* along an edge or ends inside it leaves one piece.                       *)
(***************************************************************************)
divide_polygon(polygon, from_point, to_point) ==
    LET hull == convex_hull(polygon)
        sides == {Side(hull[i], from_point, to_point) : i \in 1..Len(hull)}
        crosses == 1 \in sides /\ -1 \in sides
                   /\ \A v \in ChordEnds(hull, from_point, to_point) :
                         OnSegment(v, from_point, to_point)
    IN  IF ~crosses THEN <<hull>>
        ELSE <<convex_hull(PieceOn(hull, from_point, to_point, 1, 1)),
               convex_hull(PieceOn(hull, from_point, to_point, -1, 1))>>

\* SplitAll that keeps only the polygons the cut divides
RECURSIVE SplitAll_DropUncut(_, _, _, _)
SplitAll_DropUncut(polygons, from_point, to_point, i) ==
    IF i > Len(polygons) THEN <<>>
    ELSE LET parts == divide_polygon(polygons[i], from_point, to_point)
         IN  (IF Len(parts) = 1 THEN <<>> ELSE parts)
                \o SplitAll_DropUncut(polygons, from_point, to_point, i + 1)

\* the loop body of cuts_to_polygons: one cut applied to every polygon
RECURSIVE SplitAll(_, _, _, _)
SplitAll(polygons, from_point, to_point, i) ==
    IF i > Len(polygons) THEN <<>>
    ELSE divide_polygon(polygons[i], from_point, to_point)
            \o SplitAll(polygons, from_point, to_point, i + 1)

CakePolygon(cake_len, cake_width) ==
    <<PtR(<<0, 0>>), PtR(<<0, cake_len>>), PtR(<<cake_width, cake_len>>),
      PtR(<<cake_width, 0>>)>>

RECURSIVE ApplyCuts(_, _, _)
ApplyCuts(polygons, cuts, i) ==
    IF i > Len(cuts) THEN polygons
    ELSE ApplyCuts(SplitAll(polygons, cuts[i][1], cuts[i][2], 1), cuts, i + 1)

cuts_to_polygons(cuts, cake_len, cake_width) ==
    ApplyCuts(<<CakePolygon(cake_len, cake_width)>>, cuts, 1)

RECURSIVE SumAreas(_, _)
SumAreas(polygons, i) ==
    IF i > Len(polygons) THEN <<0, 1>>
    ELSE RAdd(Area(polygons[i]), SumAreas(polygons, i + 1))

(***************************************************************************)
(* can_cake_fit_in_plate.  miniball.miniball(points)["radius"] is the      *)
(* radius of the smallest circle enclosing the vertices; the model keeps   *)
(* its square.  The smallest enclosing circle has two of the points as a   *)
(* diameter, or is the circumcircle of three of them.                      *)
(***************************************************************************)
Dist2(a, b) ==
    RAdd(RMul(RSub(a[1], b[1]), RSub(a[1], b[1])),
         RMul(RSub(a[2], b[2]), RSub(a[2], b[2])))

\* p lies in the circle of diameter a b
InDiametral(p, a, b) ==
    RSign(RAdd(RMul(RSub(p[1], a[1]), RSub(p[1], b[1])),
               RMul(RSub(p[2], a[2]), RSub(p[2], b[2])))) <= 0

\* the centre of the circle through a, b, c (not collinear)
Circumcentre(a, b, c) ==
    LET bx == RSub(b[1], a[1])
        by == RSub(b[2], a[2])
        cx == RSub(c[1], a[1])
        cy == RSub(c[2], a[2])
        d == RMul(R(2), RSub(RMul(bx, cy), RMul(by, cx)))
        b2 == RAdd(RMul(bx, bx), RMul(by, by))
        c2 == RAdd(RMul(cx, cx), RMul(cy, cy))
        ux == RDiv(RSub(RMul(cy, b2), RMul(by, c2)), d)
        uy == RDiv(RSub(RMul(bx, c2), RMul(cx, b2)), d)
    IN  <<RAdd(a[1], ux), RAdd(a[2], uy)>>

RMinOf(S) == CHOOSE r \in S : \A q \in S : RLe(r, q)

miniball_radius2(cake_piece) ==
    LET pts == {cake_piece[i] : i \in 1..Len(cake_piece)}
        pairs == {ab \in pts \X pts : \A p \in pts : InDiametral(p, ab[1], ab[2])}
        triples == {t \in pts \X pts \X pts :
                       RSign(Cross(t[1], t[2], t[3])) # 0
                       /\ LET o == Circumcentre(t[1], t[2], t[3])
                          IN  \A p \in pts : RLe(Dist2(o, p), Dist2(o, t[1]))}
    IN  IF pairs # {}
          THEN RMinOf({RMul(<<1, 4>>, Dist2(ab[1], ab[2])) : ab \in pairs})
          ELSE RMinOf({Dist2(Circumcentre(t[1], t[2], t[3]), t[1]) : t \in triples})

\* the plate's radius, 12.5
PlateRadius == 1250

\* the area, 0.25, below which a piece always fits
CrumbArea == 2500

can_cake_fit_in_plate(cake_piece) ==
    IF RLt(Area(cake_piece), R(CrumbArea)) THEN TRUE
    ELSE RLe(miniball_radius2(cake_piece), R(PlateRadius * PlateRadius))

(***************************************************************************)
(* __calculate_penalty.  assignments[i] is the index of the polygon given  *)
(* to request i, counted from 0 as in the code, or -1.                     *)
(***************************************************************************)
penalty_percentage(polygon, request) ==
    RDiv(RMul(R(100), RAbs(RSub(Area(polygon), R(request)))), R(request))

\* RequestPenalty without the test of the plate
RequestPenalty_NoPlate(assignment, request, polygons, tolerance) ==
    IF assignment = -1
      THEN R(100)
    ELSE IF RLt(R(tolerance), penalty_percentage(polygons[assignment + 1], request))
      THEN penalty_percentage(polygons[assignment + 1], request)
    ELSE <<0, 1>>

\* what one request adds to the penalty (the body of the for loop)
RequestPenalty(assignment, request, polygons, tolerance) ==
    IF assignment = -1 \/ ~can_cake_fit_in_plate(polygons[assignment + 1])
      THEN R(100)
    ELSE IF RLt(R(tolerance), penalty_percentage(polygons[assignment + 1], request))
      THEN penalty_percentage(polygons[assignment + 1], request)
    ELSE <<0, 1>>

RECURSIVE PenaltyFrom(_, _, _, _, _)
PenaltyFrom(assignments, requests, polygons, tolerance, i) ==
    IF i > Len(assignments) THEN <<0, 1>>
    ELSE RAdd(RequestPenalty(assignments[i], requests[i], polygons, tolerance),
              PenaltyFrom(assignments, requests, polygons, tolerance, i + 1))

calculate_penalty_of(assignments, requests, polygons, tolerance) ==
    PenaltyFrom(assignments, requests, polygons, tolerance, 1)

(***************************************************************************)
(* greedy_best_fit_assignment (players/g2/assigns.py): every request, in   *)
(* order, takes the unused polygon whose area is nearest to it, the first  *)
(* of them on a tie, and -1 when no polygon is left.                       *)
(***************************************************************************)
RECURSIVE GreedyFrom(_, _, _, _)
GreedyFrom(areas, requests, used, i) ==
    IF i > Len(requests) THEN <<>>
    ELSE LET free == (1..Len(areas)) \ used
             miss == Table([j \in free |-> RAbs(RSub(areas[j], R(requests[i])))])
             best == CHOOSE j \in free :
                        \A k \in free : RLt(miss[j], miss[k])
                                         \/ (miss[j] = miss[k] /\ j <= k)
         IN  IF free = {} THEN <<-1>> \o GreedyFrom(areas, requests, used, i + 1)
             ELSE <<best - 1>> \o GreedyFrom(areas, requests, used \cup {best}, i + 1)

greedy_best_fit_assignment(polygons, requests, tolerance) ==
    GreedyFrom(Table([j \in 1..Len(polygons) |-> Area(polygons[j])]), requests, {}, 1)

calculate_penalty(requests, polygons, tolerance) ==
    calculate_penalty_of(greedy_best_fit_assignment(polygons, requests, tolerance),
                         requests, polygons, tolerance)

penalty(cuts, requests, cake_len, cake_width, tolerance) ==
    calculate_penalty(requests, cuts_to_polygons(cuts, cake_len, cake_width), tolerance)

(***************************************************************************)
(* State.                                                                  *)
(***************************************************************************)
VARIABLES
    \* generate_cuts
    gen_pc,        \* "loop": in the while loop; "returned"
    gen_cuts,      \* the parameter cuts
    selected,      \* the set selected
    gen_result     \* the list returned

genVars == <<gen_pc, gen_cuts, selected, gen_result>>

VARIABLES
    \* best_combo
    combo_pc,          \* "search": at the head of the for loop; "trial": in the
                       \* inner loop; "spam": in the spam loop; "shake": shake called
    combo_requests,
    combo_tolerance,
    combo_min_cuts,
    combo_max_cuts,
    combo_cuts,        \* the loop variable of the search, -1 while unbound
    broke,             \* the search was left by its break
    trial,             \* passes of the inner loop made for this cut count
    curr_best_cuts,
    cuts_contender,
    curr_penalty,
    best_contender,
    best_curr_penalty,
    best_cuts,
    min_penalty,
    best_cut_no,
    spam_trial         \* passes of the spam loop made

comboVars == <<combo_pc, combo_requests, combo_tolerance, combo_min_cuts, combo_max_cuts, combo_cuts, broke, trial,
               curr_best_cuts, cuts_contender, curr_penalty, best_contender,
               best_curr_penalty, best_cuts, min_penalty, best_cut_no, spam_trial>>

VARIABLES
    \* cuts_to_polygons
    ctp_pc,            \* "loop": in the for loop over the cuts; "returned"
    ctp_cuts,          \* the parameter cuts
    ctp_done,          \* passes of the for loop made
    ctp_polygons       \* the list polygons

ctpVars == <<ctp_pc, ctp_cuts, ctp_done, ctp_polygons>>

VARIABLES
    \* __calculate_penalty
    cp_pc,             \* "loop": in the for loop over the assignments; "returned"
    cp_requests,
    cp_polygons,
    cp_tolerance,
    cp_assignments,    \* what assign_func returned
    cp_request_index,  \* passes of the for loop made
    cp_penalty         \* the running sum penalty

cpVars == <<cp_pc, cp_requests, cp_polygons, cp_tolerance, cp_assignments,
            cp_request_index, cp_penalty>>

VARIABLES
    \* cuts_to_moves
    ctm_pc,            \* "loop": in the for loop over the cuts; "returned"
    ctm_cuts,          \* the parameter cuts
    ctm_done,          \* passes of the for loop made
    ctm_moves,         \* the list moves
    ctm_last_point,    \* <<>> stands for None
    ctm_sneak_points   \* what the last call of sneak returned

ctmVars == <<ctm_pc, ctm_cuts, ctm_done, ctm_moves, ctm_last_point, ctm_sneak_points>>

VARIABLES
    \* shake
    shake_pc,          \* "init": filling the first population; "loop": at the head
                       \* of the while loop; "breed": in its inner loop; "returned"
    shake_cuts,        \* the parameter cuts, the base CutSet
    shake_requests,
    shake_pen,         \* the parameter pen
    shake_candidates,
    shake_min_penalty,
    shake_best_epoc,
    shake_curr_epoc,
    shake_result       \* the CutSet returned

shakeVars == <<shake_pc, shake_cuts, shake_requests, shake_pen, shake_candidates,
               shake_min_penalty, shake_best_epoc, shake_curr_epoc, shake_result>>

vars == <<genVars, comboVars, ctpVars, cpVars, ctmVars, shakeVars>>

GenIdle ==
    /\ gen_pc = "idle"
    /\ gen_cuts = 0
    /\ selected = {}
    /\ gen_result = <<>>

\* float("inf")
Inf == <<1, 0>>

\* a < b on penalties, float("inf") included
PLt(a, b) == IF a = Inf THEN FALSE ELSE IF b = Inf THEN TRUE ELSE RLt(a, b)

ComboIdle ==
    /\ combo_pc = "idle"
    /\ combo_requests = <<>>
    /\ combo_tolerance = 0
    /\ combo_min_cuts = 0
    /\ combo_max_cuts = 0
    /\ combo_cuts = -1
    /\ broke = FALSE
    /\ trial = 0
    /\ curr_best_cuts = <<>>
    /\ cuts_contender = <<>>
    /\ curr_penalty = Inf
    /\ best_contender = Inf
    /\ best_curr_penalty = Inf
    /\ best_cuts = <<>>
    /\ min_penalty = Inf
    /\ best_cut_no = 0
    /\ spam_trial = 0

CtpIdle ==
    /\ ctp_pc = "idle"
    /\ ctp_cuts = <<>>
    /\ ctp_done = 0
    /\ ctp_polygons = <<>>

CpIdle ==
    /\ cp_pc = "idle"
    /\ cp_requests = <<>>
    /\ cp_polygons = <<>>
    /\ cp_tolerance = 0
    /\ cp_assignments = <<>>
    /\ cp_request_index = 0
    /\ cp_penalty = <<0, 1>>

CtmIdle ==
    /\ ctm_pc = "idle"
    /\ ctm_cuts = <<>>
    /\ ctm_done = 0
    /\ ctm_moves = <<>>
    /\ ctm_last_point = <<>>
    /\ ctm_sneak_points = <<>>

ShakeIdle ==
    /\ shake_pc = "idle"
    /\ shake_cuts = <<>>
    /\ shake_requests = <<>>
    /\ shake_pen = <<0, 1>>
    /\ shake_candidates = <<>>
    /\ shake_min_penalty = Inf
    /\ shake_best_epoc = 0
    /\ shake_curr_epoc = 0
    /\ shake_result = <<>>

\* the lists that hold every element of the set S once (list(S), in any order)
ListsOf(S) ==
    {l \in [1..Cardinality(S) -> S] : \A i, j \in 1..Cardinality(S) : l[i] = l[j] => i = j}

(***************************************************************************)
(* generate_cuts, one action per pass of its while loop.                   *)
(***************************************************************************)
GenInit ==
    /\ gen_pc = "loop"
    /\ gen_cuts \in 0..MaxGenCuts
    /\ selected = {}
    /\ gen_result = <<>>
    /\ ComboIdle /\ CtpIdle /\ CpIdle /\ CtmIdle /\ ShakeIdle

\* Select without the test for the reversed cut
Select_OneWay(sel, from_point, to_point) ==
    IF <<from_point, to_point>> \notin sel
      THEN sel \cup {<<from_point, to_point>>}
      ELSE sel

\* the body of the while loop on the draw from_point, to_point
Select(sel, from_point, to_point) ==
    IF <<from_point, to_point>> \notin sel /\ <<to_point, from_point>> \notin sel
      THEN sel \cup {<<from_point, to_point>>}
      ELSE sel

GenDraw ==
    /\ gen_pc = "loop"
    /\ Cardinality(selected) < gen_cuts
    /\ \E from_point \in points(CakeLen, CakeWidth, GenJumps) :
         \E to_point \in ToPoints(from_point, CakeLen, CakeWidth, GenJumps) :
            selected' = Select(selected, from_point, to_point)
    /\ UNCHANGED <<gen_pc, gen_cuts, gen_result>>
    /\ UNCHANGED <<comboVars, ctpVars, cpVars, ctmVars, shakeVars>>

GenReturn ==
    /\ gen_pc = "loop"
    /\ ~(Cardinality(selected) < gen_cuts)
    /\ gen_result' \in ListsOf(selected)
    /\ gen_pc' = "returned"
    /\ UNCHANGED <<gen_cuts, selected>>
    /\ UNCHANGED <<comboVars, ctpVars, cpVars, ctmVars, shakeVars>>

GenNext == GenDraw \/ GenReturn

SpecGen == GenInit /\ [][GenNext]_vars

(***************************************************************************)
(* Claims about generate_cuts.                                             *)
(***************************************************************************)
\* the edges of the cake the point p lies on
EdgesOf(p, cake_len, cake_width) ==
    (IF p[1] = 0 THEN {"left"} ELSE {}) \cup (IF p[1] = cake_width THEN {"right"} ELSE {})
    \cup (IF p[2] = 0 THEN {"top"} ELSE {}) \cup (IF p[2] = cake_len THEN {"bottom"} ELSE {})

\* C2: whenever generate_cuts returns, its result holds exactly the number of
\* cuts asked for, every cut has two distinct endpoints, and no two cuts of
\* the result are equal as unordered pairs of endpoints.
C2_ExactlyKDistinctCuts ==
    gen_pc = "returned" =>
        /\ Len(gen_result) = gen_cuts
        /\ \A i \in 1..Len(gen_result) : gen_result[i][1] # gen_result[i][2]
        /\ \A i, j \in 1..Len(gen_result) :
              i # j => /\ gen_result[i] # gen_result[j]
                       /\ gen_result[i] # <<gen_result[j][2], gen_result[j][1]>>

\* a call that asked for two cuts has returned two
C2_Witness ==
    /\ gen_pc = "returned"
    /\ gen_cuts = 2
    /\ Len(gen_result) = 2

\* C3: no cut returned by generate_cuts has both endpoints on one edge of the
\* cake, corners included.
C3_NoSameEdgeCut ==
    gen_pc = "returned" =>
        \A i \in 1..Len(gen_result) :
            EdgesOf(gen_result[i][1], CakeLen, CakeWidth)
              \cap EdgesOf(gen_result[i][2], CakeLen, CakeWidth) = {}

(***************************************************************************)
(* The values generate_cuts can return: the lists of the sets its loop can *)
(* build.  The set is empty when the loop cannot end.                      *)
(***************************************************************************)
RECURSIVE SelectedSets(_, _, _, _)
SelectedSets(k, cake_len, cake_width, jumps) ==
    IF k <= 0 THEN {{}}
    ELSE {sel \in {Select(s, f, t) :
                      s \in SelectedSets(k - 1, cake_len, cake_width, jumps),
                      f \in points(cake_len, cake_width, jumps),
                      t \in points(cake_len, cake_width, jumps)} :
             /\ Cardinality(sel) = k
             /\ \A c \in sel : c[2] \in ToPoints(c[1], cake_len, cake_width, jumps)}

\* the order of cuts: by from_point, then to_point, coordinate by coordinate
CutBefore(c, d) ==
    LET a == <<c[1][1], c[1][2], c[2][1], c[2][2]>>
        b == <<d[1][1], d[1][2], d[2][1], d[2][2]>>
    IN  \E i \in 1..4 : a[i] < b[i] /\ \A j \in 1..(i - 1) : a[j] = b[j]

\* list(selected).  The penalty of a CutSet is the same in every order of its
\* cuts, and nothing else in best_combo and shake reads the order, so one list
\* stands for all the orders the set may be listed in.
ListOf(sel) ==
    CHOOSE l \in ListsOf(sel) : \A i, j \in 1..Len(l) : i < j => CutBefore(l[i], l[j])

generate_cuts(k, cake_len, cake_width, jumps) ==
    {ListOf(sel) : sel \in SelectedSets(k, cake_len, cake_width, jumps)}

(***************************************************************************)
(* best_combo, up to its call of shake.                                    *)
(***************************************************************************)
\* a third of the cake, and the whole cake
RequestValues == {200, 600}

\* the request lists best_combo is given: every list of up to MaxRequests
\* requests, and the longer lists of equal requests up to LongRequests
RequestLists ==
    UNION {[1..n -> RequestValues] : n \in 0..MaxRequests}
    \cup {[i \in 1..n |-> 200] : n \in (MaxRequests + 1)..LongRequests}

\* the calls generate_cuts(cuts, cake_len, cake_width, 6) of the search, by cuts
SearchDraws ==
    Table([k \in 0..LongRequests |-> generate_cuts(k, CakeLen, CakeWidth, SearchJumps)])

\* the calls generate_cuts(cuts, cake_len, cake_width, 12) of the spam pass, by cuts
SpamDraws ==
    Table([k \in 0..LongRequests |-> generate_cuts(k, CakeLen, CakeWidth, SpamJumps)])

\* penalty(cuts_contender, requests, cake_len, cake_width, tolerance) of every
\* draw, cuts_to_polygons computed once per draw
ComboPenalty ==
    LET draws == UNION {SearchDraws[k] \cup SpamDraws[k] : k \in 0..LongRequests}
        polygons == Table([c \in draws |-> cuts_to_polygons(c, CakeLen, CakeWidth)])
    IN  Table([r \in RequestLists |->
            Table([c \in draws |-> calculate_penalty(r, polygons[c], 0)])])

ComboInit ==
    /\ GenIdle /\ CtpIdle /\ CpIdle /\ CtmIdle /\ ShakeIdle
    /\ combo_pc = "search"
    /\ combo_requests \in RequestLists
    /\ combo_tolerance = 0
    /\ combo_min_cuts = get_cuts_spread(combo_requests)[1]
    /\ combo_max_cuts = get_cuts_spread(combo_requests)[2]
    /\ combo_cuts = -1
    /\ broke = FALSE
    /\ trial = 0
    /\ curr_best_cuts = <<>>
    /\ cuts_contender = <<>>
    /\ curr_penalty = Inf
    /\ best_contender = Inf
    /\ best_curr_penalty = Inf
    /\ best_cuts = <<>>
    /\ min_penalty = Inf
    /\ best_cut_no = combo_min_cuts
    /\ spam_trial = 0

\* the next value of the for loop over range(min_cuts, max_cuts + 1)
NextCuts == IF combo_cuts = -1 THEN combo_min_cuts ELSE combo_cuts + 1

\* the range is exhausted: on to the spam pass
SearchExhausted ==
    /\ combo_pc = "search"
    /\ NextCuts > combo_max_cuts
    /\ combo_pc' = "spam"
    /\ UNCHANGED <<combo_requests, combo_tolerance, combo_min_cuts, combo_max_cuts, combo_cuts, broke, trial,
                   curr_best_cuts, cuts_contender, curr_penalty, best_contender,
                   best_curr_penalty, best_cuts, min_penalty, best_cut_no, spam_trial>>
    /\ UNCHANGED <<genVars, ctpVars, cpVars, ctmVars, shakeVars>>

\* if best_cut_no + 5 < cuts: break
SearchBreak ==
    /\ combo_pc = "search"
    /\ NextCuts <= combo_max_cuts
    /\ best_cut_no + ExitMargin < NextCuts
    /\ combo_cuts' = NextCuts
    /\ broke' = TRUE
    /\ combo_pc' = "spam"
    /\ UNCHANGED <<combo_requests, combo_tolerance, combo_min_cuts, combo_max_cuts, trial,
                   curr_best_cuts, cuts_contender, curr_penalty, best_contender,
                   best_curr_penalty, best_cuts, min_penalty, best_cut_no, spam_trial>>
    /\ UNCHANGED <<genVars, ctpVars, cpVars, ctmVars, shakeVars>>

\* the next cut count is taken up
SearchEnter ==
    /\ combo_pc = "search"
    /\ NextCuts <= combo_max_cuts
    /\ ~(best_cut_no + ExitMargin < NextCuts)
    /\ combo_cuts' = NextCuts
    /\ curr_best_cuts' = <<>>
    /\ best_contender' = Inf
    /\ best_curr_penalty' = Inf
    /\ trial' = 0
    /\ combo_pc' = "trial"
    /\ UNCHANGED <<combo_requests, combo_tolerance, combo_min_cuts, combo_max_cuts, broke, cuts_contender,
                   curr_penalty, best_cuts, min_penalty, best_cut_no, spam_trial>>
    /\ UNCHANGED <<genVars, ctpVars, cpVars, ctmVars, shakeVars>>

\* one pass of the inner loop
Trial ==
    /\ combo_pc = "trial"
    /\ trial < SearchTrials
    /\ \E contender \in SearchDraws[combo_cuts] :
         LET pen == ComboPenalty[combo_requests][contender]
         IN  /\ cuts_contender' = contender
             /\ curr_penalty' = pen
             /\ IF curr_best_cuts = <<>> \/ PLt(curr_penalty', best_curr_penalty)
                  THEN /\ best_contender' = cuts_contender'
                       /\ best_curr_penalty' = curr_penalty'
                  ELSE UNCHANGED <<best_contender, best_curr_penalty>>
    /\ trial' = trial + 1
    /\ UNCHANGED <<combo_pc, combo_requests, combo_tolerance, combo_min_cuts, combo_max_cuts, combo_cuts, broke,
                   curr_best_cuts, best_cuts, min_penalty, best_cut_no, spam_trial>>
    /\ UNCHANGED <<genVars, ctpVars, cpVars, ctmVars, shakeVars>>

\* after the inner loop: the best of this cut count against the best so far
TrialsDone ==
    /\ combo_pc = "trial"
    /\ trial = SearchTrials
    /\ IF best_cuts = <<>> \/ PLt(best_curr_penalty, min_penalty)
         THEN /\ best_cuts' = best_contender
              /\ min_penalty' = best_curr_penalty
              /\ best_cut_no' = combo_cuts
         ELSE UNCHANGED <<best_cuts, min_penalty, best_cut_no>>
    /\ combo_pc' = "search"
    /\ UNCHANGED <<combo_requests, combo_tolerance, combo_min_cuts, combo_max_cuts, combo_cuts, broke, trial,
                   curr_best_cuts, cuts_contender, curr_penalty, best_contender,
                   best_curr_penalty, spam_trial>>
    /\ UNCHANGED <<genVars, ctpVars, cpVars, ctmVars, shakeVars>>

\* one pass of the spam loop
Spam ==
    /\ combo_pc = "spam"
    /\ spam_trial < SpamTrials
    /\ \E contender \in SpamDraws[combo_cuts] :
         LET pen == ComboPenalty[combo_requests][contender]
         IN  /\ cuts_contender' = contender
             /\ curr_penalty' = pen
             /\ IF PLt(curr_penalty', min_penalty)
                  THEN /\ best_cuts' = cuts_contender'
                       /\ min_penalty' = curr_penalty'
                  ELSE UNCHANGED <<best_cuts, min_penalty>>
    /\ spam_trial' = spam_trial + 1
    /\ UNCHANGED <<combo_pc, combo_requests, combo_tolerance, combo_min_cuts, combo_max_cuts, combo_cuts, broke, trial,
                   curr_best_cuts, best_contender, best_curr_penalty, best_cut_no>>
    /\ UNCHANGED <<genVars, ctpVars, cpVars, ctmVars, shakeVars>>

\* shake(best_cuts, requests, min_penalty, cake_len, cake_width, tolerance) is called
CallShake ==
    /\ combo_pc = "spam"
    /\ spam_trial = SpamTrials
    /\ combo_pc' = "shake"
    /\ UNCHANGED <<combo_requests, combo_tolerance, combo_min_cuts, combo_max_cuts, combo_cuts, broke, trial,
                   curr_best_cuts, cuts_contender, curr_penalty, best_contender,
                   best_curr_penalty, best_cuts, min_penalty, best_cut_no, spam_trial>>
    /\ UNCHANGED <<genVars, ctpVars, cpVars, ctmVars, shakeVars>>

ComboNext ==
    \/ SearchExhausted
    \/ SearchBreak
    \/ SearchEnter
    \/ Trial
    \/ TrialsDone
    \/ Spam
    \/ CallShake

SpecCombo == ComboInit /\ [][ComboNext]_vars

(***************************************************************************)
(* Claims about best_combo.                                                *)
(***************************************************************************)
\* C5: for a request list of length n, the bounds of the search are
\* min_cuts = n // 3 and max_cuts = n - 1, raised to min_cuts + 1 when
\* n - 1 <= min_cuts; so min_cuts < max_cuts, and a search that was not
\* left by its break has taken up every cut count from min_cuts to
\* max_cuts, at least two of them.
C5_SpreadBounds ==
    combo_pc # "idle" =>
        LET n == Len(combo_requests)
        IN  /\ combo_min_cuts = n \div 3
            /\ combo_max_cuts = (IF n - 1 <= n \div 3 THEN n \div 3 + 1 ELSE n - 1)
            /\ combo_min_cuts < combo_max_cuts
            /\ (combo_pc \in {"spam", "shake"} /\ ~broke) =>
                  /\ combo_cuts = combo_max_cuts
                  /\ combo_cuts - combo_min_cuts + 1 >= 2

\* two requests: the search ran over the cut counts 0 and 1 and ended
C5_Witness ==
    /\ combo_pc = "spam"
    /\ Len(combo_requests) = 2
    /\ combo_min_cuts = 0
    /\ combo_max_cuts = 1
    /\ ~broke
    /\ combo_cuts = 1

\* C8: every call of generate_cuts in the spam pass asks for best_cut_no
\* cuts, and the CutSet handed to shake has best_cut_no cuts.
C8_SpamAtBestCutNo ==
    /\ (combo_pc = "spam" /\ spam_trial > 0) => Len(cuts_contender) = best_cut_no
    /\ combo_pc = "shake" => Len(best_cuts) = best_cut_no

\* the distinct cuts generate_cuts can select from the points of a granularity
DistinctCuts(cake_len, cake_width, jumps) ==
    UNION {{{f, t} : t \in ToPoints(f, cake_len, cake_width, jumps)} :
              f \in points(cake_len, cake_width, jumps)}

\* C11: every call best_combo makes to generate_cuts, in the search and in
\* the spam pass, asks for no more cuts than there are distinct cuts among
\* the points of its granularity, so the rejection loop can end.
C11_CallsFeasible ==
    /\ (combo_pc = "trial" /\ trial < SearchTrials) =>
          combo_cuts <= Cardinality(DistinctCuts(CakeLen, CakeWidth, SearchJumps))
    /\ (combo_pc = "spam" /\ spam_trial < SpamTrials) =>
          combo_cuts <= Cardinality(DistinctCuts(CakeLen, CakeWidth, SpamJumps))

\* C12: in the inner loop of the search, after every trial the penalty
\* retained for the cut count, best_curr_penalty, is no larger than it was
\* and no larger than the penalty of the trial, so that after the loop it is
\* the least penalty of the trials drawn for the cut count; and
\* best_contender is a CutSet drawn for the cut count that has this penalty.
C12_KeepsBestTrial ==
    [][(combo_pc = "trial" /\ trial' = trial + 1) =>
          /\ ~PLt(best_curr_penalty, best_curr_penalty')
          /\ ~PLt(curr_penalty', best_curr_penalty')
          /\ best_contender' \in SearchDraws[combo_cuts]
          /\ ComboPenalty[combo_requests][best_contender'] = best_curr_penalty']_vars

\* C13: after every iteration of the outer loop of the search, min_penalty
\* is no larger than it was before the iteration and no larger than the
\* penalty recorded for the cut count of the iteration, so that it is the
\* least of the penalties recorded so far; best_cuts has best_cut_no cuts
\* and its penalty is min_penalty.
C13_TracksGlobalBest ==
    [][(combo_pc = "trial" /\ combo_pc' = "search") =>
          /\ ~PLt(min_penalty, min_penalty')
          /\ ~PLt(best_curr_penalty, min_penalty')
          /\ Len(best_cuts') = best_cut_no'
          /\ ComboPenalty[combo_requests][best_cuts'] = min_penalty']_vars

(***************************************************************************)
(* cuts_to_polygons, one action per pass of its loop over the cuts.        *)
(***************************************************************************)
\* the spacing of the boundary points the cuts of the inputs run between
PointStep == 10

\* the longest CutSet given to cuts_to_polygons
MaxCtpCuts == 2

\* the points of the cake's boundary on the grid of PointStep, the corners included
BoundaryPoints(cake_len, cake_width) ==
    {p \in (0..cake_width) \X (0..cake_len) :
        /\ p[1] \in {0, cake_width} \/ p[2] \in {0, cake_len}
        /\ p[1] % PointStep = 0 \/ p[1] = cake_width
        /\ p[2] % PointStep = 0 \/ p[2] = cake_len}

\* the boundary-to-boundary cuts, same-edge cuts included
BoundaryCuts(cake_len, cake_width) ==
    {c \in BoundaryPoints(cake_len, cake_width) \X BoundaryPoints(cake_len, cake_width) :
        c[1] # c[2]}

CtpInit ==
    /\ GenIdle /\ ComboIdle /\ CpIdle /\ CtmIdle /\ ShakeIdle
    /\ ctp_pc = "loop"
    /\ ctp_cuts \in UNION {[1..n -> BoundaryCuts(CakeLen, CakeWidth)] : n \in 0..MaxCtpCuts}
    /\ ctp_done = 0
    /\ ctp_polygons = <<CakePolygon(CakeLen, CakeWidth)>>

\* one pass of the loop: the cut is applied to every polygon of the list
CtpCut ==
    /\ ctp_pc = "loop"
    /\ ctp_done < Len(ctp_cuts)
    /\ ctp_polygons' = SplitAll(ctp_polygons, ctp_cuts[ctp_done + 1][1],
                                ctp_cuts[ctp_done + 1][2], 1)
    /\ ctp_done' = ctp_done + 1
    /\ UNCHANGED <<ctp_pc, ctp_cuts>>
    /\ UNCHANGED <<genVars, comboVars, cpVars, ctmVars, shakeVars>>

CtpReturn ==
    /\ ctp_pc = "loop"
    /\ ctp_done = Len(ctp_cuts)
    /\ ctp_pc' = "returned"
    /\ UNCHANGED <<ctp_cuts, ctp_done, ctp_polygons>>
    /\ UNCHANGED <<genVars, comboVars, cpVars, ctmVars, shakeVars>>

CtpNext == CtpCut \/ CtpReturn

SpecCtp == CtpInit /\ [][CtpNext]_vars

\* C10: after every cut of a CutSet of boundary-to-boundary cuts the areas of
\* the pieces sum to cake_len * cake_width, and for the empty CutSet
\* cuts_to_polygons returns one piece, the full rectangle.
C10_AreaConserved ==
    ctp_pc # "idle" =>
        /\ SumAreas(ctp_polygons, 1) = R(CakeLen * CakeWidth)
        /\ (ctp_pc = "returned" /\ ctp_cuts = <<>>) =>
              ctp_polygons = <<CakePolygon(CakeLen, CakeWidth)>>

\* two cuts were applied: the second split one piece of the first and left
\* the other as it was
C10_Witness ==
    /\ ctp_pc = "returned"
    /\ Len(ctp_cuts) = 2
    /\ Len(ctp_polygons) = 3

(***************************************************************************)
(* __calculate_penalty, one action per pass of its loop.  assign_func is   *)
(* a parameter: the assignments are any list of polygon indices and -1.    *)
(***************************************************************************)
\* the longest lists of requests and of polygons given to __calculate_penalty
MaxCpLen == 2

\* a strip too long for the plate, a square that just fits, a crumb, and a
\* sliver as long as the strip whose area is below the crumb area
CpPieces ==
    {<<PtR(<<0, 0>>), PtR(<<0, 1>>), PtR(<<2600, 1>>), PtR(<<2600, 0>>)>>,
     <<PtR(<<0, 0>>), PtR(<<0, 50>>), PtR(<<50, 50>>), PtR(<<50, 0>>)>>,
     <<PtR(<<0, 0>>), PtR(<<0, 10>>), PtR(<<10, 10>>), PtR(<<10, 0>>)>>,
     <<PtR(<<0, 0>>), PtR(<<0, 1>>), PtR(<<2600, 0>>)>>}

CpRequestValues == {100, 2500, 2600}

CpTolerances == {0, 4, 5}

CpInit ==
    /\ GenIdle /\ ComboIdle /\ CtpIdle /\ CtmIdle /\ ShakeIdle
    /\ cp_pc = "loop"
    /\ cp_requests \in UNION {[1..n -> CpRequestValues] : n \in 0..MaxCpLen}
    /\ cp_polygons \in UNION {[1..n -> CpPieces] : n \in 0..MaxCpLen}
    /\ cp_tolerance \in CpTolerances
    /\ cp_assignments \in [1..Len(cp_requests) -> -1..(Len(cp_polygons) - 1)]
    /\ cp_request_index = 0
    /\ cp_penalty = <<0, 1>>

\* one pass of the for loop
CpStep ==
    /\ cp_pc = "loop"
    /\ cp_request_index < Len(cp_assignments)
    /\ cp_penalty' = RAdd(cp_penalty,
                          RequestPenalty(cp_assignments[cp_request_index + 1],
                                         cp_requests[cp_request_index + 1],
                                         cp_polygons, cp_tolerance))
    /\ cp_request_index' = cp_request_index + 1
    /\ UNCHANGED <<cp_pc, cp_requests, cp_polygons, cp_tolerance, cp_assignments>>
    /\ UNCHANGED <<genVars, comboVars, ctpVars, ctmVars, shakeVars>>

CpReturn ==
    /\ cp_pc = "loop"
    /\ cp_request_index = Len(cp_assignments)
    /\ cp_pc' = "returned"
    /\ UNCHANGED <<cp_requests, cp_polygons, cp_tolerance, cp_assignments,
                   cp_request_index, cp_penalty>>
    /\ UNCHANGED <<genVars, comboVars, ctpVars, ctmVars, shakeVars>>

CpNext == CpStep \/ CpReturn

SpecCp == CpInit /\ [][CpNext]_vars

\* request i has a piece, and the piece fits the plate
C6_Served(i) ==
    /\ cp_assignments[i] # -1
    /\ can_cake_fit_in_plate(cp_polygons[cp_assignments[i] + 1])

\* 100 * |piece area - request| / request of request i
C6_Error(i) ==
    RDiv(RMul(R(100), RAbs(RSub(Area(cp_polygons[cp_assignments[i] + 1]),
                                R(cp_requests[i])))),
         R(cp_requests[i]))

\* what request i adds to the total, as the claim states it
C6_Contribution(i) ==
    IF ~C6_Served(i) THEN R(100)
    ELSE IF RLt(R(cp_tolerance), C6_Error(i)) THEN C6_Error(i)
    ELSE <<0, 1>>

RECURSIVE C6_Sum(_)
C6_Sum(i) == IF i = 0 THEN <<0, 1>> ELSE RAdd(C6_Sum(i - 1), C6_Contribution(i))

\* C6: the penalty returned is the sum over the requests of 100 for a
\* request that is unassigned or whose piece does not fit the plate, of the
\* percentage error for a served request whose error is above the
\* tolerance, and of 0 otherwise; it is never negative, and it is 0 only if
\* every request is served within the tolerance.
C6_PenaltyIsSumOfContributions ==
    cp_pc = "returned" =>
        /\ cp_penalty = C6_Sum(Len(cp_requests))
        /\ RLe(<<0, 1>>, cp_penalty)
        /\ cp_penalty = <<0, 1>> =>
              \A i \in 1..Len(cp_requests) :
                  C6_Served(i) /\ RLe(C6_Error(i), R(cp_tolerance))

\* a request of 2600 was given the strip of area 2600, which does not fit
\* the plate, and the penalty returned is 100
C6_Witness ==
    /\ cp_pc = "returned"
    /\ cp_requests = <<2600>>
    /\ cp_assignments = <<0>>
    /\ Len(cp_polygons) >= 1
    /\ Area(cp_polygons[1]) = R(2600)
    /\ cp_penalty = R(100)

(***************************************************************************)
(* sneak and its helpers.  A length of 0.1 is 10, the 0.01 of bounce is 1. *)
(***************************************************************************)
\* <<x_edge, min_x>>
nearest_edge_x(pos, cake_width) ==
    IF cake_width - pos[1] < pos[1] THEN <<cake_width, cake_width - pos[1]>>
    ELSE <<0, pos[1]>>

\* <<y_edge, min_y>>
nearest_edge_y(pos, cake_len) ==
    IF cake_len - pos[2] < pos[2] THEN <<cake_len, cake_len - pos[2]>>
    ELSE <<0, pos[2]>>

bounce(margin) == IF margin = 0 THEN 1 ELSE margin - 1

\* the distance, 0.1, up to which a start position counts as being in a corner
CornerReach == 10

\* the waypoints of sneak, before its last line appends end_pos
sneak_waypoints(start_pos, end_pos, cake_width, cake_len) ==
    LET nearest_x == nearest_edge_x(start_pos, cake_width)[1]
        x_dist == nearest_edge_x(start_pos, cake_width)[2]
        nearest_y == nearest_edge_y(start_pos, cake_len)[1]
        y_dist == nearest_edge_y(start_pos, cake_len)[2]
        end_x == nearest_edge_x(end_pos, cake_width)[1]
        end_x_dist == nearest_edge_x(end_pos, cake_width)[2]
        end_y == nearest_edge_y(end_pos, cake_len)[1]
        end_y_dist == nearest_edge_y(end_pos, cake_len)[2]
        along_x ==
            <<<<end_x, bounce(nearest_y)>>>>
            \o (IF end_y_dist > 0 \/ nearest_y # end_y
                  THEN <<<<bounce(end_x), nearest_y>>>>
                       \o (IF end_y_dist = 0
                             THEN <<<<bounce(end_x), end_y>>, <<end_x, bounce(end_y)>>>>
                             ELSE <<>>)
                  ELSE <<>>)
        along_y ==
            <<<<bounce(nearest_x), end_y>>>>
            \o (IF end_x_dist > 0 \/ nearest_x # end_x
                  THEN <<<<nearest_x, bounce(end_y)>>>>
                       \o (IF end_x_dist = 0
                             THEN <<<<end_x, bounce(end_y)>>, <<bounce(end_x), end_y>>>>
                             ELSE <<>>)
                  ELSE <<>>)
    IN  IF y_dist = 0 /\ (x_dist > CornerReach \/ nearest_x # end_x) THEN along_x
        ELSE IF x_dist = 0 /\ (y_dist > CornerReach \/ nearest_y # end_y) THEN along_y
        ELSE <<>>

\* sneak without its last line, moves.append(end_pos)
sneak_NoEnd(start_pos, end_pos, cake_width, cake_len) ==
    sneak_waypoints(start_pos, end_pos, cake_width, cake_len)

sneak(start_pos, end_pos, cake_width, cake_len) ==
    sneak_waypoints(start_pos, end_pos, cake_width, cake_len) \o <<end_pos>>

(***************************************************************************)
(* cuts_to_moves, one action per pass of its loop over the cuts.  A move   *)
(* is <<kind, point>>, kind "INIT" for constants.INIT and "CUT" for        *)
(* constants.CUT.                                                          *)
(***************************************************************************)
\* the longest CutSet given to cuts_to_moves
MaxCtmCuts == 2

\* [(constants.CUT, point) for point in sneak_points]
CutMoves(sneak_points) == [k \in 1..Len(sneak_points) |-> <<"CUT", sneak_points[k]>>]

CtmInit ==
    /\ GenIdle /\ ComboIdle /\ CtpIdle /\ CpIdle /\ ShakeIdle
    /\ ctm_pc = "loop"
    /\ ctm_cuts \in UNION {[1..n -> BoundaryCuts(CakeLen, CakeWidth)] : n \in 0..MaxCtmCuts}
    /\ ctm_done = 0
    /\ ctm_moves = <<>>
    /\ ctm_last_point = <<>>
    /\ ctm_sneak_points = <<>>

\* one pass of the for loop
CtmCut ==
    /\ ctm_pc = "loop"
    /\ ctm_done < Len(ctm_cuts)
    /\ LET from_point == ctm_cuts[ctm_done + 1][1]
           to_point == ctm_cuts[ctm_done + 1][2]
       IN  /\ IF ctm_moves = <<>>
                THEN /\ ctm_moves' = <<<<"INIT", from_point>>, <<"CUT", to_point>>>>
                     /\ UNCHANGED ctm_sneak_points
                ELSE /\ ctm_sneak_points' = sneak(ctm_last_point, from_point,
                                                  CakeWidth, CakeLen)
                     /\ ctm_moves' = ctm_moves \o CutMoves(ctm_sneak_points')
                                        \o <<<<"CUT", to_point>>>>
           /\ ctm_last_point' = to_point
    /\ ctm_done' = ctm_done + 1
    /\ UNCHANGED <<ctm_pc, ctm_cuts>>
    /\ UNCHANGED <<genVars, comboVars, ctpVars, cpVars, shakeVars>>

CtmReturn ==
    /\ ctm_pc = "loop"
    /\ ctm_done = Len(ctm_cuts)
    /\ ctm_pc' = "returned"
    /\ UNCHANGED <<ctm_cuts, ctm_done, ctm_moves, ctm_last_point, ctm_sneak_points>>
    /\ UNCHANGED <<genVars, comboVars, ctpVars, cpVars, shakeVars>>

CtmNext == CtmCut \/ CtmReturn

SpecCtm == CtmInit /\ [][CtmNext]_vars

\* the edges of the cake the point p is within the bounce margin, 0.01, of
C7_NearEdges(p) ==
    (IF p[1] <= 1 THEN {"left"} ELSE {}) \cup (IF CakeWidth - p[1] <= 1 THEN {"right"} ELSE {})
    \cup (IF p[2] <= 1 THEN {"top"} ELSE {}) \cup (IF CakeLen - p[2] <= 1 THEN {"bottom"} ELSE {})

\* C7: every leg of the path from the end of one cut over the waypoints of
\* sneak to the start of the next cut has both of its end points within the
\* bounce margin of one common edge of the cake.
C7_SneakFollowsEdges ==
    (ctm_pc # "idle" /\ ctm_done >= 2) =>
        LET path == <<ctm_cuts[ctm_done - 1][2]>> \o ctm_sneak_points
        IN  \A k \in 1..(Len(path) - 1) :
                C7_NearEdges(path[k]) \cap C7_NearEdges(path[k + 1]) # {}

\* C9: for a CutSet that is not empty the first move is INIT at the first
\* cut's from-point and every later move is a CUT; the cuts, in their order,
\* have their CUT(to-point) at increasing places of the sequence, each
\* right after a move that ends at the cut's from-point; between the
\* CUT(to-point) of one cut and that of the next lie the waypoints sneak
\* gives for the way between them, and nothing else; the last move is the
\* last cut's CUT(to-point).
C9_MovesFollowCuts ==
    (ctm_pc = "returned" /\ ctm_cuts # <<>>) =>
        LET n == Len(ctm_cuts)
            m == Len(ctm_moves)
        IN  /\ m >= 2
            /\ ctm_moves[1] = <<"INIT", ctm_cuts[1][1]>>
            /\ \A k \in 2..m : ctm_moves[k][1] = "CUT"
            /\ \E place \in [1..n -> 2..m] :
                  /\ place[1] = 2
                  /\ place[n] = m
                  /\ \A i \in 1..n :
                        /\ ctm_moves[place[i]] = <<"CUT", ctm_cuts[i][2]>>
                        /\ ctm_moves[place[i] - 1][2] = ctm_cuts[i][1]
                  /\ \A i \in 2..n :
                        /\ place[i - 1] < place[i] - 1
                        /\ SubSeq(ctm_moves, place[i - 1] + 1, place[i] - 1)
                             = CutMoves(sneak(ctm_cuts[i - 1][2], ctm_cuts[i][1],
                                              CakeWidth, CakeLen))

\* two cuts on opposite sides: the way from the first to the second runs
\* over four waypoints
C9_Witness ==
    /\ ctm_pc = "returned"
    /\ Len(ctm_cuts) = 2
    /\ Len(ctm_sneak_points) = 5
    /\ Len(ctm_moves) = 8

(***************************************************************************)
(* create_offspring.  A candidate is a list with one genome per cut of the *)
(* base CutSet; a genome is <<offset of the from-point, offset of the      *)
(* to-point>>, an offset <<dx, dy>>.  All values are whole hundredths, so  *)
(* round(num, 2) leaves them as they are.                                  *)
(***************************************************************************)
\* MUTATION_DIST, 0.1
MUTATION_DIST == 10

\* "mutate left point" with the other axis mutated
mutate_left_point_OtherAxis(l, offset, plus, cake_len, cake_width) ==
    IF l[1] = 0 \/ l[1] = cake_width
      THEN IF plus /\ l[1] + offset[1] + MUTATION_DIST < cake_width
             THEN <<offset[1] + MUTATION_DIST, offset[2]>>
           ELSE IF 0 < l[1] + offset[1] - MUTATION_DIST
             THEN <<offset[1] - MUTATION_DIST, offset[2]>>
           ELSE offset
    ELSE IF l[2] = 0 \/ l[2] = cake_len
      THEN IF plus /\ l[2] + offset[2] + MUTATION_DIST < cake_len
             THEN <<offset[1], offset[2] + MUTATION_DIST>>
           ELSE IF 0 < l[2] + offset[2] - MUTATION_DIST
             THEN <<offset[1], offset[2] - MUTATION_DIST>>
           ELSE offset
    ELSE offset

\* "mutate left point": the new offset genome[0] of the from-point l; plus is
\* the test mut < MUTATION_PROB / 4
mutate_left_point(l, offset, plus, cake_len, cake_width) ==
    IF l[1] = 0 \/ l[1] = cake_width
      THEN IF plus /\ l[2] + offset[2] + MUTATION_DIST < cake_len
             THEN <<offset[1], offset[2] + MUTATION_DIST>>
           ELSE IF 0 < l[2] + offset[2] - MUTATION_DIST
             THEN <<offset[1], offset[2] - MUTATION_DIST>>
           ELSE offset
    ELSE IF l[2] = 0 \/ l[2] = cake_len
      THEN IF plus /\ l[1] + offset[1] + MUTATION_DIST < cake_width
             THEN <<offset[1] + MUTATION_DIST, offset[2]>>
           ELSE IF 0 < l[1] + offset[1] - MUTATION_DIST
             THEN <<offset[1] - MUTATION_DIST, offset[2]>>
           ELSE offset
    ELSE offset

\* "mutate right point": the new offset genome[1] of the to-point r; plus is
\* the test mut - MUTATION_PROB / 2 < MUTATION_PROB / 4.  On the top and
\* bottom borders the test for the step up reads r[1] and cake_len.
mutate_right_point(r, offset, plus, cake_len, cake_width) ==
    IF r[1] = 0 \/ r[1] = cake_width
      THEN IF plus /\ r[2] + offset[2] + MUTATION_DIST < cake_len
             THEN <<offset[1], offset[2] + MUTATION_DIST>>
           ELSE IF 0 < r[2] + offset[2] - MUTATION_DIST
             THEN <<offset[1], offset[2] - MUTATION_DIST>>
           ELSE offset
    ELSE IF r[2] = 0 \/ r[2] = cake_len
      THEN IF plus /\ r[2] + offset[1] + MUTATION_DIST < cake_len
             THEN <<offset[1] + MUTATION_DIST, offset[2]>>
           ELSE IF 0 < r[1] + offset[1] - MUTATION_DIST
             THEN <<offset[1] - MUTATION_DIST, offset[2]>>
           ELSE offset
    ELSE offset

\* the quarters of MUTATION_PROB the draw mut can fall in: 0 for
\* mut < 0.1, 1 for 0.1 <= mut < 0.2, 2 for 0.2 <= mut < 0.3, 3 for
\* 0.3 <= mut < 0.4, and 4 for the draws with no mutation, mut >= 0.4
MutDraws == 0..4

\* the genome after the mutation drawn
Mutated(cut, genome, mut, cake_len, cake_width) ==
    IF mut \in {0, 1}
      THEN <<mutate_left_point(cut[1], genome[1], mut = 0, cake_len, cake_width),
             genome[2]>>
    ELSE IF mut \in {2, 3}
      THEN <<genome[1],
             mutate_right_point(cut[2], genome[2], mut = 2, cake_len, cake_width)>>
    ELSE genome

\* the offspring create_offspring can return, over the draws toss and mut of
\* every pass of its loop, from the cut idx on
RECURSIVE OffspringFrom(_, _, _, _, _, _)
OffspringFrom(cuts, c1, c2, cake_len, cake_width, idx) ==
    IF idx > Len(c1) THEN {<<>>}
    ELSE {<<Mutated(cuts[idx], parent[idx], mut, cake_len, cake_width)>> \o rest :
             parent \in {c1, c2}, mut \in MutDraws,
             rest \in OffspringFrom(cuts, c1, c2, cake_len, cake_width, idx + 1)}

create_offspring(cuts, c1, c2, cake_len, cake_width) ==
    OffspringFrom(cuts, c1, c2, cake_len, cake_width, 1)

combined_cuts(cuts, candidate) ==
    [idx \in 1..Len(cuts) |->
        <<<<cuts[idx][1][1] + candidate[idx][1][1], cuts[idx][1][2] + candidate[idx][1][2]>>,
          <<cuts[idx][2][1] + candidate[idx][2][1], cuts[idx][2][2] + candidate[idx][2][2]>>>>]

\* the list candidates in the order given by the sort keys key: list.sort is
\* stable, equal keys keep their order
Sorted(candidates, key) ==
    LET n == Len(candidates)
        before(i, j) == RLt(key[i], key[j]) \/ (key[i] = key[j] /\ i < j)
        rank(i) == Cardinality({j \in 1..n : before(j, i)}) + 1
    IN  [r \in 1..n |-> candidates[CHOOSE i \in 1..n : rank(i) = r]]

\* Sorted, with the list and the keys computed once
SortedBy(candidates, key) ==
    CHOOSE s \in {Sorted(c, k) : c \in {candidates}, k \in {key}} : TRUE

\* the largest base CutSet given to shake
MaxShakeCuts == 1

\* the longest request list given to shake
MaxShakeRequests == 2

ShakeRequests == {r \in RequestLists : Len(r) <= MaxShakeRequests}

\* the coordinates an endpoint of a shaken cut is expected to take: those of
\* the sample points, moved by multiples of MUTATION_DIST
MemoCoords ==
    LET base == UNION {{p[1], p[2]} : p \in points(CakeLen, CakeWidth, GenJumps)}
        top == Max(CakeLen, CakeWidth)
    IN  {c \in 0..top : \E b \in base : (c - b) % MUTATION_DIST = 0}

MemoPoints ==
    {p \in MemoCoords \X MemoCoords : p[1] \in {0, CakeWidth} \/ p[2] \in {0, CakeLen}}

\* penalty(cuts, requests, CakeLen, CakeWidth, 0) for the CutSets of shake, whose
\* endpoints are among MemoPoints, computed once
PenaltyMemo ==
    LET sets == UNION {[1..n -> MemoPoints \X MemoPoints] : n \in 0..MaxShakeCuts}
        polygons == Table([c \in sets |-> cuts_to_polygons(c, CakeLen, CakeWidth)])
    IN  Table([r \in ShakeRequests |->
            Table([c \in sets |-> calculate_penalty(r, polygons[c], 0)])])

\* penalty(cuts, requests, cake_len, cake_width, tolerance) as shake calls it,
\* with the cake CakeLen x CakeWidth and the tolerance 0
shake_penalty(cuts, requests) == PenaltyMemo[requests][cuts]

\* sort_candidates with the keys negated: the worst candidate comes first
sort_candidates_Descending(cuts, candidates, requests, cake_len, cake_width, tolerance) ==
    SortedBy(candidates,
             Table([i \in 1..Len(candidates) |->
                       RNeg(shake_penalty(combined_cuts(cuts, candidates[i]), requests))]))

sort_candidates(cuts, candidates, requests, cake_len, cake_width, tolerance) ==
    SortedBy(candidates,
             Table([i \in 1..Len(candidates) |->
                       shake_penalty(combined_cuts(cuts, candidates[i]), requests)]))

(***************************************************************************)
(* shake, one action per offspring bred and per sort-and-cutoff.           *)
(***************************************************************************)
\* number of candidates in tribe (20 in the code)
NUM_CANDIDATES == 3

\* number of candidates cut off after each epoc (6 in the code)
CUTOFF == 1

\* number of epocs we must pass without evolving until we terminate (30 in
\* the code)
MAX_UNCHANGED_EPOCS == 2

\* [[0.0, 0.0], [0.0, 0.0]] for every cut
ZeroCandidate(cuts) == [idx \in 1..Len(cuts) |-> <<<<0, 0>>, <<0, 0>>>>]

\* the base CutSets: what generate_cuts can return
ShakeBases ==
    UNION {generate_cuts(k, CakeLen, CakeWidth, GenJumps) : k \in 0..MaxShakeCuts}

ShakeInit ==
    /\ GenIdle /\ ComboIdle /\ CtpIdle /\ CpIdle /\ CtmIdle
    /\ shake_pc = "init"
    /\ shake_cuts \in ShakeBases
    /\ shake_requests \in ShakeRequests
    /\ shake_pen = shake_penalty(shake_cuts, shake_requests)
    /\ shake_candidates = <<ZeroCandidate(shake_cuts), ZeroCandidate(shake_cuts)>>
    /\ shake_min_penalty = Inf
    /\ shake_best_epoc = 0
    /\ shake_curr_epoc = 0
    /\ shake_result = <<>>

\* candidates.append(create_offspring(cuts, *random.sample(candidates, 2), ...))
Breed ==
    \E a, b \in 1..Len(shake_candidates) :
        /\ a # b
        /\ \E offspring \in create_offspring(shake_cuts, shake_candidates[a],
                                            shake_candidates[b], CakeLen, CakeWidth) :
              shake_candidates' = Append(shake_candidates, offspring)

\* candidates after sort_candidates and candidates[:-CUTOFF]
SortAndCutoff ==
    LET sorted == sort_candidates(shake_cuts, shake_candidates, shake_requests,
                                  CakeLen, CakeWidth, 0)
    IN  SubSeq(sorted, 1, Len(shake_candidates) - CUTOFF)

\* one pass of the loop that initializes the population
ShakeInitBreed ==
    /\ shake_pc = "init"
    /\ Len(shake_candidates) < NUM_CANDIDATES
    /\ Breed
    /\ UNCHANGED <<shake_pc, shake_cuts, shake_requests, shake_pen, shake_min_penalty,
                   shake_best_epoc, shake_curr_epoc, shake_result>>
    /\ UNCHANGED <<genVars, comboVars, ctpVars, cpVars, ctmVars>>

\* the first sort and cutoff, and the assignments before the while loop
ShakeInitSort ==
    /\ shake_pc = "init"
    /\ ~(Len(shake_candidates) < NUM_CANDIDATES)
    /\ shake_candidates' = SortAndCutoff
    /\ shake_min_penalty' = shake_pen
    /\ shake_best_epoc' = 0
    /\ shake_curr_epoc' = 0
    /\ shake_pc' = "loop"
    /\ UNCHANGED <<shake_cuts, shake_requests, shake_pen, shake_result>>
    /\ UNCHANGED <<genVars, comboVars, ctpVars, cpVars, ctmVars>>

\* the loop test without 0 < min_penalty
ShakeGoesOn_IgnoreZero ==
    shake_curr_epoc < shake_best_epoc + MAX_UNCHANGED_EPOCS

\* while 0 < min_penalty and curr_epoc < best_epoc + MAX_UNCHANGED_EPOCS
ShakeGoesOn ==
    /\ RLt(<<0, 1>>, shake_min_penalty)
    /\ shake_curr_epoc < shake_best_epoc + MAX_UNCHANGED_EPOCS

\* the while loop is entered
ShakeEnter ==
    /\ shake_pc = "loop"
    /\ ShakeGoesOn
    /\ shake_pc' = "breed"
    /\ UNCHANGED <<shake_cuts, shake_requests, shake_pen, shake_candidates,
                   shake_min_penalty, shake_best_epoc, shake_curr_epoc, shake_result>>
    /\ UNCHANGED <<genVars, comboVars, ctpVars, cpVars, ctmVars>>

\* one pass of the inner loop
ShakeBreed ==
    /\ shake_pc = "breed"
    /\ Len(shake_candidates) < NUM_CANDIDATES
    /\ Breed
    /\ UNCHANGED <<shake_pc, shake_cuts, shake_requests, shake_pen, shake_min_penalty,
                   shake_best_epoc, shake_curr_epoc, shake_result>>
    /\ UNCHANGED <<genVars, comboVars, ctpVars, cpVars, ctmVars>>

\* the rest of the body of the while loop
ShakeEpoc ==
    /\ shake_pc = "breed"
    /\ ~(Len(shake_candidates) < NUM_CANDIDATES)
    /\ shake_candidates' = SortAndCutoff
    /\ shake_curr_epoc' = shake_curr_epoc + 1
    /\ LET curr == shake_penalty(combined_cuts(shake_cuts, shake_candidates'[1]),
                                 shake_requests)
       IN  IF RLt(curr, shake_min_penalty)
             THEN /\ shake_min_penalty' = curr
                  /\ shake_best_epoc' = shake_curr_epoc'
             ELSE UNCHANGED <<shake_min_penalty, shake_best_epoc>>
    /\ shake_pc' = "loop"
    /\ UNCHANGED <<shake_cuts, shake_requests, shake_pen, shake_result>>
    /\ UNCHANGED <<genVars, comboVars, ctpVars, cpVars, ctmVars>>

\* return combined_cuts(cuts, candidates[0])
ShakeReturn ==
    /\ shake_pc = "loop"
    /\ ~ShakeGoesOn
    /\ shake_result' = combined_cuts(shake_cuts, shake_candidates[1])
    /\ shake_pc' = "returned"
    /\ UNCHANGED <<shake_cuts, shake_requests, shake_pen, shake_candidates,
                   shake_min_penalty, shake_best_epoc, shake_curr_epoc>>
    /\ UNCHANGED <<genVars, comboVars, ctpVars, cpVars, ctmVars>>

ShakeNext ==
    \/ ShakeInitBreed
    \/ ShakeInitSort
    \/ ShakeEnter
    \/ ShakeBreed
    \/ ShakeEpoc
    \/ ShakeReturn

SpecShake == ShakeInit /\ [][ShakeNext]_vars

\* shake runs on: the interpreter always takes the next step
SpecShakeFair == SpecShake /\ WF_vars(ShakeNext)

(***************************************************************************)
(* Claims about shake.                                                     *)
(***************************************************************************)
\* the penalty of the first candidate of the population
C1_Best == shake_penalty(combined_cuts(shake_cuts, shake_candidates[1]), shake_requests)

\* C1: for a base CutSet whose penalty is pen, after every sort-and-cutoff the
\* penalty of candidates[0] is at most pen and at most what it was after
\* the sort-and-cutoff before, and the CutSet shake returns has a penalty of
\* at most pen, whatever offspring were bred.
C1_ShakeNeverWorse ==
    [][/\ (shake_pc # "loop" /\ shake_pc' = "loop") => RLe(C1_Best', shake_pen)
       /\ (shake_pc = "breed" /\ shake_pc' = "loop") => RLe(C1_Best', C1_Best)
       /\ (shake_pc # "returned" /\ shake_pc' = "returned") =>
             RLe(shake_penalty(shake_result', shake_requests), shake_pen)]_vars

\* shake has returned, after two epocs or more, a CutSet better than its base
C1_Witness ==
    /\ shake_pc = "returned"
    /\ shake_curr_epoc >= 2
    /\ RLt(shake_penalty(shake_result, shake_requests), shake_pen)

\* the point p lies on x = 0, x = cake_width, y = 0 or y = cake_len
C4_OnBoundary(p) == p[1] \in {0, CakeWidth} \/ p[2] \in {0, CakeLen}

\* the offset leaves the base point p on one of the edges p lies on
C4_AlongEdge(p, offset) ==
    \/ p[1] \in {0, CakeWidth} /\ offset[1] = 0
    \/ p[2] \in {0, CakeLen} /\ offset[2] = 0

\* C4: both endpoints of every cut generate_cuts returned, of every cut of
\* the population of shake (base endpoint plus offset) and of every cut
\* shake returns lie on x in {0, cake_width} or y in {0, cake_len}, and an
\* offset moves its base endpoint only along an edge the endpoint lies on.
C4_BoundaryInvariant ==
    shake_pc # "idle" =>
        /\ \A idx \in 1..Len(shake_cuts), e \in 1..2 : C4_OnBoundary(shake_cuts[idx][e])
        /\ \A k \in 1..Len(shake_candidates), idx \in 1..Len(shake_cuts), e \in 1..2 :
              /\ C4_OnBoundary(combined_cuts(shake_cuts, shake_candidates[k])[idx][e])
              /\ C4_AlongEdge(shake_cuts[idx][e], shake_candidates[k][idx][e])
        /\ shake_pc = "returned" =>
              \A idx \in 1..Len(shake_result), e \in 1..2 :
                  C4_OnBoundary(shake_result[idx][e])

\* shake has returned a cut whose two endpoints were both moved
C4_Witness ==
    /\ shake_pc = "returned"
    /\ Len(shake_result) = 1
    /\ shake_result[1][1] # shake_cuts[1][1]
    /\ shake_result[1][2] # shake_cuts[1][2]

\* C14: for every cut of every candidate of the population, both endpoints
\* (base endpoint plus accumulated offset) stay in the cake's extent:
\* 0 <= x <= cake_width and 0 <= y <= cake_len.
C14_EndpointsInDomain ==
    shake_pc # "idle" =>
        \A k \in 1..Len(shake_candidates), idx \in 1..Len(shake_cuts), e \in 1..2 :
            LET p == combined_cuts(shake_cuts, shake_candidates[k])[idx][e]
            IN  /\ 0 <= p[1] /\ p[1] <= CakeWidth
                /\ 0 <= p[2] /\ p[2] <= CakeLen

\* C15: a generation is begun only while min_penalty > 0 and fewer than
\* MAX_UNCHANGED_EPOCS generations have passed since best_epoc, and shake
\* returns only when that is no longer so; best_epoc changes only to the
\* current generation and only when min_penalty gets strictly smaller; for
\* an input penalty of 0 no generation is run; and shake returns in the end.
C15_ShakeTerminates ==
    /\ [][/\ (shake_pc = "loop" /\ shake_pc' = "breed") =>
               /\ RLt(<<0, 1>>, shake_min_penalty)
               /\ shake_curr_epoc - shake_best_epoc < MAX_UNCHANGED_EPOCS
          /\ (shake_pc = "loop" /\ shake_pc' = "returned") =>
               \/ shake_min_penalty = <<0, 1>>
               \/ shake_curr_epoc - shake_best_epoc >= MAX_UNCHANGED_EPOCS
          /\ shake_best_epoc' # shake_best_epoc =>
               /\ shake_best_epoc' = shake_curr_epoc'
               /\ RLt(shake_min_penalty', shake_min_penalty)
          /\ shake_pen = <<0, 1>> => shake_curr_epoc' = 0]_vars
    /\ <>(shake_pc = "returned")

\* shake has returned after an improvement in some generation and
\* MAX_UNCHANGED_EPOCS generations without one after it
C15_Witness ==
    /\ shake_pc = "returned"
    /\ shake_best_epoc >= 1
    /\ shake_curr_epoc = shake_best_epoc + MAX_UNCHANGED_EPOCS
    /\ RLt(<<0, 1>>, shake_min_penalty)

====
